---- MODULE Spec2Model ----
(***************************************************************************)
(* Model of mlua's userdata layer (src/userdata.rs): the AnyUserData       *)
(* handle, its typed access through inspect (is / borrow / borrow_mut),    *)
(* the RefCell that wraps every exposed instance, the associated user      *)
(* value and handle equality.                                              *)
(***************************************************************************)
EXTENDS Integers, Sequences, FiniteSets, TLC

\* ---------------------------------------------------------------- bounds
NumObjs == 2        \* userdata objects the engine can hold
NumHandles == 2     \* AnyUserData handles alive at once
MaxViews == 2       \* Ref / RefMut guards alive at once

\* ------------------------------------------------------------- universes
Types == {"T", "U"}                 \* the UserData implementors
Dialects == {"lua53", "lua52", "lua51"}   \* cfg(feature = ...) of the build
ObjIds == 1..NumObjs
HandleIds == 1..NumHandles
NoObj == 0
NoMetatable == 0
StoredValues == {123}               \* MyUserData(123)
EqDeclared == {"T"}                 \* the types whose add_methods binds MetaMethod::Eq

\* Engine values (crate::Value), all records of one shape.
Nil == [t |-> "nil", v |-> "", arr |-> <<>>]
Integer(s) == [t |-> "integer", v |-> s, arr |-> <<>>]
TableOf(a) == [t |-> "table", v |-> "", arr |-> a]
EngineValues == {Nil, Integer("1"), TableOf(<<>>)}
Unset == [t |-> "unset", v |-> "", arr |-> <<>>]   \* no set_user_value yet

\* ------------------------------------------------------ the method registry
\* UserDataMethods: the four registrations keyed by a method name and the four
\* keyed by an operator slot.
NameOps == {"add_method", "add_method_mut", "add_function", "add_function_mut"}
MetaOps == {"add_meta_method", "add_meta_method_mut", "add_meta_function",
            "add_meta_function_mut"}
MethodNames == {"get", "add"}          \* names add_methods registers
ReadKeys == MethodNames \cup {"size"}  \* keys scripts read; "size" is never a method
MetaKeys == {"__index", "__add"}       \* operator slots add_methods registers

\* what the wrapper of a registration takes from the receiver before the closure runs
ReceiverOf(op) ==
    IF op \in {"add_method", "add_meta_method"} THEN "ref"
    ELSE IF op \in {"add_method_mut", "add_meta_method_mut"} THEN "mut"
    ELSE "none"

Unbound == 0
NoDispatch == [done |-> FALSE, methods |-> [k \in MethodNames |-> Unbound],
               meta |-> [k \in MetaKeys |-> Unbound]]

\* rawset of one registration into the table of its kind; the closure of the
\* i-th registration is closure i
\* (variant: a key already bound is left as it is)
RawSetKeepFirst(tbl, key, closure) ==
    IF tbl[key] # Unbound THEN tbl ELSE [tbl EXCEPT ![key] = closure]
RawSet(tbl, key, closure) == [tbl EXCEPT ![key] = closure]

\* the registrations of one kind set one after the other, in registration order
RECURSIVE BindAll(_, _, _, _)
BindAll(regs, i, ops, tbl) ==
    IF i > Len(regs) THEN tbl
    ELSE BindAll(regs, i + 1, ops,
                 IF regs[i].op \in ops THEN RawSet(tbl, regs[i].key, i) ELSE tbl)

\* the metatable made from a registration pass
Materialized(regs) ==
    [done |-> TRUE,
     methods |-> BindAll(regs, 1, NameOps, NoDispatch.methods),
     meta |-> BindAll(regs, 1, MetaOps, NoDispatch.meta)]

\* obj[k] on a userdata with metatable d: the methods are looked up first; the
\* registered "__index" is called only when the lookup finds nothing.  Without
\* methods the registered "__index" is the metatable's "__index" itself.
\* (variant: a registered "__index" is asked first)
IndexOverrideFirst(d, k) ==
    IF d.meta["__index"] # Unbound
    THEN [res |-> "index_op", method |-> Unbound, ran |-> <<d.meta["__index"]>>]
    ELSE IF k \in MethodNames /\ d.methods[k] # Unbound
    THEN [res |-> "method", method |-> d.methods[k], ran |-> <<>>]
    ELSE IF \E m \in MethodNames : d.methods[m] # Unbound
    THEN [res |-> "nil", method |-> Unbound, ran |-> <<>>]
    ELSE [res |-> "error", method |-> Unbound, ran |-> <<>>]
IndexResult(d, k) ==
    IF k \in MethodNames /\ d.methods[k] # Unbound
    THEN [res |-> "method", method |-> d.methods[k], ran |-> <<>>]
    ELSE IF d.meta["__index"] # Unbound
    THEN [res |-> "index_op", method |-> Unbound, ran |-> <<d.meta["__index"]>>]
    ELSE IF \E m \in MethodNames : d.methods[m] # Unbound
    THEN [res |-> "nil", method |-> Unbound, ran |-> <<>>]
    ELSE [res |-> "error", method |-> Unbound, ran |-> <<>>]

VARIABLES
    dialect,        \* the configured engine dialect
    registered,     \* lua.extra.registered_userdata: type -> registry id of its metatable
    nextRef,        \* next id luaL_ref hands out
    mtHasEq,        \* metatables (by id) that hold an "__eq" entry
    addMethodsRuns, \* how often T::add_methods has run, per type
    objTy,          \* native type boxed in each userdata ("free" = slot unused)
    objMt,          \* metatable of each userdata (NoMetatable = none)
    cellFlag,       \* RefCell borrow flag: >0 shared count, 0 unused, -1 exclusive
    cellValue,      \* the native instance's stored integer
    userValue,      \* the userdata's uservalue slot
    handles,        \* AnyUserData handle -> the userdata it references
    refs,           \* live Ref<T> guards obtained through each handle
    refMuts,        \* live RefMut<T> guards obtained through each handle
    released,       \* history: the userdata whose cell has had a guard dropped
    lastSet,        \* history: the value of the latest set_user_value per userdata
    builder,        \* the registrations add_methods has made so far, in order
    dispatch,       \* the materialized metatable's bindings: key -> closure
    stack,          \* the method calls in progress, outermost first
    metaSeen,       \* the latest MetaMethod::name applications, newest first
    last            \* history: what the most recent operation saw and returned

vars == <<dialect, registered, nextRef, mtHasEq, addMethodsRuns, objTy, objMt,
          cellFlag, cellValue, userValue, handles, refs, refMuts, released,
          lastSet, builder, dispatch, stack, metaSeen, last>>

regVars == <<registered, nextRef, mtHasEq, addMethodsRuns>>
objVars == <<objTy, objMt, cellValue>>
viewVars == <<refs, refMuts>>
histVars == <<released, lastSet>>
auxVars == <<builder, dispatch, stack, metaSeen>>

\* ------------------------------------------------------------- observers
RECURSIVE SumOver(_, _)
SumOver(f, S) == IF S = {} THEN 0
                 ELSE LET x == CHOOSE y \in S : TRUE IN f[x] + SumOver(f, S \ {x})
HandlesOf(o) == {h \in HandleIds : handles[h] = o}
NumShared(o) == SumOver(refs, HandlesOf(o))         \* Ref guards alive on o
NumExclusive(o) == SumOver(refMuts, HandlesOf(o))   \* RefMut guards alive on o
TotalViews == SumOver(refs, HandleIds) + SumOver(refMuts, HandleIds)

\* The record of one operation on handle h: its inputs, its result, and the
\* state of h's userdata just before it.
Obs(op, h, h2, ty, res, called, calls, ret, val) ==
    LET o == handles[h] IN
    [op |-> op, h |-> h, h2 |-> h2, ty |-> ty, res |-> res, called |-> called,
     eqCalls |-> calls, ret |-> ret, val |-> val,
     preFlag |-> cellFlag[o], preShared |-> NumShared(o),
     preExclusive |-> NumExclusive(o), preValue |-> cellValue[o],
     key |-> "", arg |-> 0, out |-> 0, ran |-> <<>>]

NoObs ==
    [op |-> "init", h |-> 0, h2 |-> 0, ty |-> "", res |-> "", called |-> FALSE,
     eqCalls |-> <<>>, ret |-> "", val |-> Nil,
     preFlag |-> 0, preShared |-> 0, preExclusive |-> 0, preValue |-> 0,
     key |-> "", arg |-> 0, out |-> 0, ran |-> <<>>]

\* ------------------------------------------------------------------ init
InitBuild(D) ==
    /\ dialect \in D
    /\ registered = [t \in Types |-> NoMetatable]
    /\ nextRef = 1
    /\ mtHasEq = {}
    /\ addMethodsRuns = [t \in Types |-> 0]
    /\ objTy = [o \in ObjIds |-> "free"]
    /\ objMt = [o \in ObjIds |-> NoMetatable]
    /\ cellFlag = [o \in ObjIds |-> 0]
    /\ cellValue = [o \in ObjIds |-> 0]
    /\ userValue = [o \in ObjIds |-> Nil]
    /\ handles = [h \in HandleIds |-> NoObj]
    /\ refs = [h \in HandleIds |-> 0]
    /\ refMuts = [h \in HandleIds |-> 0]
    /\ released = {}
    /\ lastSet = [o \in ObjIds |-> Unset]
    /\ builder = <<>>
    /\ dispatch = NoDispatch
    /\ stack = <<>>
    /\ metaSeen = <<>>
    /\ last = NoObs

\* The lua53 build.
Init == InitBuild({"lua53"})
\* Any build.
InitAnyBuild == InitBuild(Dialects)

\* ------------------------------------------------- the per-type tag cache
\* lua.userdata_metatable::<T>(): the cached registry id, or on first use a run of
\* T::add_methods and a fresh luaL_ref id.
TagAfter(ty) == IF registered[ty] # NoMetatable THEN registered[ty] ELSE nextRef

\* Variant: no cache lookup, every call registers anew.
UserdataMetatableUncached(ty) ==
    /\ registered' = [registered EXCEPT ![ty] = nextRef]
    /\ nextRef' = nextRef + 1
    /\ mtHasEq' = IF ty \in EqDeclared THEN mtHasEq \cup {nextRef} ELSE mtHasEq
    /\ addMethodsRuns' = [addMethodsRuns EXCEPT ![ty] = @ + 1]

UserdataMetatable(ty) ==
    IF registered[ty] # NoMetatable
    THEN UNCHANGED regVars
    ELSE /\ registered' = [registered EXCEPT ![ty] = nextRef]
         /\ nextRef' = nextRef + 1
         /\ mtHasEq' = IF ty \in EqDeclared THEN mtHasEq \cup {nextRef} ELSE mtHasEq
         /\ addMethodsRuns' = [addMethodsRuns EXCEPT ![ty] = @ + 1]

\* ------------------------------------------------------ creating userdata
\* Fresh references are interchangeable, so the lowest free slot is taken.
HasFreeHandle == \E h \in HandleIds : handles[h] = NoObj
HasFreeObj == \E o \in ObjIds : objTy[o] = "free"
FreeHandle == CHOOSE h \in HandleIds :
                  handles[h] = NoObj /\ \A g \in HandleIds : g < h => handles[g] # NoObj
FreeObj == CHOOSE o \in ObjIds :
               objTy[o] = "free" /\ \A p \in ObjIds : p < o => objTy[p] # "free"

\* lua.create_userdata(data): box data in a RefCell, tag it with T's metatable.
CreateUserData(ty, v) ==
    /\ HasFreeHandle /\ HasFreeObj
    /\ UserdataMetatable(ty)
    /\ objTy' = [objTy EXCEPT ![FreeObj] = ty]
    /\ objMt' = [objMt EXCEPT ![FreeObj] = TagAfter(ty)]
    /\ cellFlag' = [cellFlag EXCEPT ![FreeObj] = 0]
    /\ cellValue' = [cellValue EXCEPT ![FreeObj] = v]
    /\ userValue' = [userValue EXCEPT ![FreeObj] = Nil]
    /\ handles' = [handles EXCEPT ![FreeHandle] = FreeObj]
    /\ last' = [NoObs EXCEPT !.op = "create", !.h = FreeHandle, !.ty = ty, !.res = "Ok"]
    /\ UNCHANGED <<dialect, auxVars, viewVars, histVars>>

\* A userdata made by other native code, with no metatable, reaching this layer
\* as an AnyUserData (the case lua_getmetatable(..) == 0 is written for).
CreateForeign ==
    /\ HasFreeHandle /\ HasFreeObj
    /\ objTy' = [objTy EXCEPT ![FreeObj] = "foreign"]
    /\ objMt' = [objMt EXCEPT ![FreeObj] = NoMetatable]
    /\ handles' = [handles EXCEPT ![FreeHandle] = FreeObj]
    /\ last' = [NoObs EXCEPT !.op = "create_foreign", !.h = FreeHandle, !.res = "Ok"]
    /\ UNCHANGED <<dialect, auxVars, regVars, cellFlag, cellValue, userValue, viewVars, histVars>>

\* #[derive(Clone)]: a second handle to the same userdata.
CloneHandle(h) ==
    /\ handles[h] # NoObj
    /\ HasFreeHandle
    /\ handles' = [handles EXCEPT ![FreeHandle] = handles[h]]
    /\ last' = Obs("clone", h, FreeHandle, "", "Ok", FALSE, <<>>, "", Nil)
    /\ UNCHANGED <<dialect, auxVars, regVars, objVars, cellFlag, userValue, viewVars, histVars>>

\* ---------------------------------------------------------------- inspect
\* lua_getmetatable(state, -1) != 0
HasMetatable(h) == objMt[handles[h]] # NoMetatable

\* lua_rawequal of T's registered metatable and the handle's metatable
\* (variant: any metatable passes)
RawEqualMetatableAny(h, ty) == TRUE
RawEqualMetatable(h, ty) == objMt[handles[h]] = TagAfter(ty)

\* inspect hands the cell to func exactly when both tests pass
InspectPasses(h, ty) == HasMetatable(h) /\ RawEqualMetatable(h, ty)

\* inspect's result, given what func returns when it is run on the cell
\* (variant: a missing metatable reported with another error kind)
InspectNoMetatableIsBorrowError(h, ty, funcResult) ==
    IF ~HasMetatable(h) THEN "UserDataBorrowError"
    ELSE IF ~RawEqualMetatable(h, ty) THEN "UserDataTypeMismatch"
    ELSE funcResult
\* (variant: the cell's answer is looked at before the metatables are compared)
InspectConflictFirst(h, ty, funcResult) ==
    IF ~HasMetatable(h) THEN "UserDataTypeMismatch"
    ELSE IF funcResult \in {"UserDataBorrowError", "UserDataBorrowMutError"} THEN funcResult
    ELSE IF ~RawEqualMetatable(h, ty) THEN "UserDataTypeMismatch"
    ELSE funcResult
Inspect(h, ty, funcResult) ==
    IF ~HasMetatable(h) THEN "UserDataTypeMismatch"
    ELSE IF ~RawEqualMetatable(h, ty) THEN "UserDataTypeMismatch"
    ELSE funcResult

\* what inspect does to the tag cache: T's metatable is looked up (and made on
\* first use) only once the handle is known to have a metatable
InspectLookup(h, ty) ==
    IF HasMetatable(h) THEN UserdataMetatable(ty) ELSE UNCHANGED regVars

\* get_userdata::<RefCell<T>>(state, -3): the cell is the handle's own userdata
\* (variant: one cell per metatable instead of one per userdata)
CellPerType(h) == CHOOSE o \in ObjIds : objMt[o] = objMt[handles[h]]
CellOf(h) == handles[h]

\* ------------------------------------------------------------ the RefCell
\* RefCell::try_borrow: refused while the flag says "writing"
\* (variant: granted in every state)
TryBorrowAlways(flag) == TRUE
TryBorrowOk(flag) == flag >= 0
\* RefCell::try_borrow_mut: granted only on an unused cell
\* (variant: granted while shared guards are alive)
TryBorrowMutWhileShared(flag) == flag >= 0
TryBorrowMutOk(flag) == flag = 0

\* ------------------------------------------------------- typed operations
\* is::<T>(): Ok(()) => true, Err(UserDataTypeMismatch) => false, else unreachable!()
IsResult(h, ty) ==
    LET r == Inspect(h, ty, "Ok") IN
    IF r = "Ok" THEN "true" ELSE IF r = "UserDataTypeMismatch" THEN "false" ELSE "panic"

Is(h, ty) ==
    /\ handles[h] # NoObj
    /\ InspectLookup(h, ty)
    /\ last' = Obs("is", h, 0, ty, IsResult(h, ty), InspectPasses(h, ty), <<>>, "", Nil)
    /\ UNCHANGED <<dialect, auxVars, objVars, cellFlag, userValue, handles, viewVars, histVars>>

BorrowResult(h, ty) ==
    Inspect(h, ty, IF TryBorrowOk(cellFlag[CellOf(h)]) THEN "Ok" ELSE "UserDataBorrowError")

Borrow(h, ty) ==
    /\ handles[h] # NoObj
    /\ BorrowResult(h, ty) = "Ok" => TotalViews < MaxViews
    /\ InspectLookup(h, ty)
    /\ IF BorrowResult(h, ty) = "Ok"
       THEN /\ cellFlag' = [cellFlag EXCEPT ![CellOf(h)] = @ + 1]
            /\ refs' = [refs EXCEPT ![h] = @ + 1]
       ELSE UNCHANGED <<cellFlag, refs>>
    /\ last' = Obs("borrow", h, 0, ty, BorrowResult(h, ty), InspectPasses(h, ty),
                   <<>>, "", Nil)
    /\ UNCHANGED <<dialect, auxVars, objVars, userValue, handles, refMuts, histVars>>

BorrowMutResult(h, ty) ==
    Inspect(h, ty, IF TryBorrowMutOk(cellFlag[CellOf(h)]) THEN "Ok"
                   ELSE "UserDataBorrowMutError")

BorrowMut(h, ty) ==
    /\ handles[h] # NoObj
    /\ BorrowMutResult(h, ty) = "Ok" => TotalViews < MaxViews
    /\ InspectLookup(h, ty)
    /\ IF BorrowMutResult(h, ty) = "Ok"
       THEN /\ cellFlag' = [cellFlag EXCEPT ![CellOf(h)] = -1]
            /\ refMuts' = [refMuts EXCEPT ![h] = @ + 1]
       ELSE UNCHANGED <<cellFlag, refMuts>>
    /\ last' = Obs("borrow_mut", h, 0, ty, BorrowMutResult(h, ty), InspectPasses(h, ty),
                   <<>>, "", Nil)
    /\ UNCHANGED <<dialect, auxVars, objVars, userValue, handles, refs, histVars>>

\* Dropping a Ref<T>: the shared count goes down by one.
\* (variant: the count is not given back)
FlagAfterRefDropLeaked(flag) == flag
FlagAfterRefDrop(flag) == flag - 1

ReleaseRef(h) ==
    /\ refs[h] > 0
    /\ refs' = [refs EXCEPT ![h] = @ - 1]
    /\ cellFlag' = [cellFlag EXCEPT ![CellOf(h)] = FlagAfterRefDrop(@)]
    /\ released' = released \cup {handles[h]}
    /\ last' = Obs("release", h, 0, "", "Ok", FALSE, <<>>, "", Nil)
    /\ UNCHANGED <<dialect, auxVars, regVars, objVars, userValue, handles, refMuts, lastSet>>

\* Dropping a RefMut<T>: the cell is unused again.
ReleaseRefMut(h) ==
    /\ refMuts[h] > 0
    /\ refMuts' = [refMuts EXCEPT ![h] = @ - 1]
    /\ cellFlag' = [cellFlag EXCEPT ![CellOf(h)] = @ + 1]
    /\ released' = released \cup {handles[h]}
    /\ last' = Obs("release_mut", h, 0, "", "Ok", FALSE, <<>>, "", Nil)
    /\ UNCHANGED <<dialect, auxVars, regVars, objVars, userValue, handles, refs, lastSet>>

\* ------------------------------------------------------- the user value
\* set_user_value: lua53 stores v itself; the other dialects store a fresh table
\* t with t[1] = v, since their uservalue slot only takes a table.
\* (variant: stored as is in every build)
StoredUserValueUnwrapped(v) == v
StoredUserValue(v) == IF dialect = "lua53" THEN v ELSE TableOf(<<v>>)

\* Table::get(1) on the wrapping table
TableGet1(tbl) == IF Len(tbl.arr) >= 1 THEN tbl.arr[1] ELSE Nil

\* get_user_value: lua53 converts the slot's value; the other dialects convert
\* the slot to a Table (an error when it holds none) and read its key 1.
LoadedUserValue(slot) ==
    IF dialect = "lua53" THEN [res |-> "Ok", val |-> slot]
    ELSE IF slot.t = "table" THEN [res |-> "Ok", val |-> TableGet1(slot)]
    ELSE [res |-> "FromLuaConversionError", val |-> Nil]

SetUserValue(h, v) ==
    /\ handles[h] # NoObj
    /\ userValue' = [userValue EXCEPT ![handles[h]] = StoredUserValue(v)]
    /\ lastSet' = [lastSet EXCEPT ![handles[h]] = v]
    /\ last' = Obs("set_user_value", h, 0, "", "Ok", FALSE, <<>>, "", v)
    /\ UNCHANGED <<dialect, auxVars, regVars, objVars, cellFlag, handles, viewVars, released>>

GetUserValue(h) ==
    LET got == LoadedUserValue(userValue[handles[h]]) IN
    /\ handles[h] # NoObj
    /\ last' = Obs("get_user_value", h, 0, "", got.res, FALSE, <<>>, "", got.val)
    /\ UNCHANGED <<dialect, auxVars, regVars, objVars, cellFlag, userValue, handles, viewVars,
                   histVars>>

\* --------------------------------------------------------------- equality
\* impl PartialEq: self.0 == other.0, the two references name the same userdata
RefEq(a, b) == handles[a] = handles[b]

\* what the "__eq" closure of a metatable may return to equals
EqOutcomes == {"true", "false", "RuntimeError"}

\* equals(self, other); r is what the bound "__eq" closure returns if it is called
\* (variants: without the identity shortcut; with the operands swapped)
EqualsNoIdentityShortcut(a, b, r) ==
    IF ~HasMetatable(a) \/ ~HasMetatable(b)
    THEN [res |-> "UserDataTypeMismatch", calls |-> <<>>]
    ELSE IF objMt[handles[a]] # objMt[handles[b]] THEN [res |-> "false", calls |-> <<>>]
    ELSE IF objMt[handles[a]] \in mtHasEq
    THEN [res |-> r, calls |-> << <<handles[a], handles[b]>> >>]
    ELSE [res |-> "false", calls |-> <<>>]

EqualsSwappedArguments(a, b, r) ==
    IF RefEq(a, b) THEN [res |-> "true", calls |-> <<>>]
    ELSE IF ~HasMetatable(a) \/ ~HasMetatable(b)
    THEN [res |-> "UserDataTypeMismatch", calls |-> <<>>]
    ELSE IF objMt[handles[a]] # objMt[handles[b]] THEN [res |-> "false", calls |-> <<>>]
    ELSE IF objMt[handles[a]] \in mtHasEq
    THEN [res |-> r, calls |-> << <<handles[b], handles[a]>> >>]
    ELSE [res |-> "false", calls |-> <<>>]

EqualsResult(a, b, r) ==
    IF RefEq(a, b) THEN [res |-> "true", calls |-> <<>>]
    ELSE IF ~HasMetatable(a) \/ ~HasMetatable(b)
    THEN [res |-> "UserDataTypeMismatch", calls |-> <<>>]
    ELSE IF objMt[handles[a]] # objMt[handles[b]] THEN [res |-> "false", calls |-> <<>>]
    ELSE IF objMt[handles[a]] \in mtHasEq
    THEN [res |-> r, calls |-> << <<handles[a], handles[b]>> >>]
    ELSE [res |-> "false", calls |-> <<>>]

Equals(a, b, r) ==
    LET out == EqualsResult(a, b, r) IN
    /\ handles[a] # NoObj /\ handles[b] # NoObj
    /\ last' = Obs("equals", a, b, "", out.res, FALSE, out.calls, r, Nil)
    /\ UNCHANGED <<dialect, auxVars, regVars, objVars, cellFlag, userValue, handles, viewVars,
                   histVars>>

\* ------------------------------------------------------- specifications
Creation ==
    \/ \E ty \in Types, v \in StoredValues : CreateUserData(ty, v)
    \/ CreateForeign
    \/ \E h \in HandleIds : CloneHandle(h)

TypedAccess ==
    \/ \E h \in HandleIds, ty \in Types : Is(h, ty)
    \/ \E h \in HandleIds, ty \in Types : Borrow(h, ty)
    \/ \E h \in HandleIds, ty \in Types : BorrowMut(h, ty)
    \/ \E h \in HandleIds : ReleaseRef(h)
    \/ \E h \in HandleIds : ReleaseRefMut(h)

\* Handles, the tag cache and the borrow cell.
Next == Creation \/ TypedAccess

Spec == Init /\ [][Next]_vars

\* Handles and equals.
NextEq ==
    \/ Creation
    \/ \E a \in HandleIds, b \in HandleIds, r \in EqOutcomes : Equals(a, b, r)

SpecEq == Init /\ [][NextEq]_vars

\* Handles of one type, exclusive borrows of them, and the user value, in any build.
NextUV ==
    \/ \E v \in StoredValues : CreateUserData("T", v)
    \/ \E h \in HandleIds : CloneHandle(h)
    \/ \E h \in HandleIds : BorrowMut(h, "T")
    \/ \E h \in HandleIds : ReleaseRefMut(h)
    \/ \E h \in HandleIds, v \in EngineValues : SetUserValue(h, v)
    \/ \E h \in HandleIds : GetUserValue(h)

SpecUV == InitAnyBuild /\ [][NextUV]_vars

\* ------------------------------------------------- one registration pass
MaxRegs == 2        \* registrations one add_methods makes

regFrame == <<dialect, regVars, objVars, cellFlag, userValue, handles, viewVars,
              histVars, stack, metaSeen>>

\* methods.add_*(key, closure): the registration is appended to the builder
AddRegistration(op, key) ==
    /\ ~dispatch.done
    /\ Len(builder) < MaxRegs
    /\ builder' = Append(builder, [op |-> op, key |-> key])
    /\ last' = [NoObs EXCEPT !.op = op, !.key = key]
    /\ UNCHANGED <<regFrame, dispatch>>

\* the end of the pass: the metatable is made from the builder
Materialize ==
    /\ ~dispatch.done
    /\ dispatch' = Materialized(builder)
    /\ last' = [NoObs EXCEPT !.op = "materialize"]
    /\ UNCHANGED <<regFrame, builder>>

\* a script reads obj[k]
IndexRead(k) ==
    LET r == IndexResult(dispatch, k) IN
    /\ dispatch.done
    /\ last' = [NoObs EXCEPT !.op = "index", !.key = k, !.res = r.res,
                             !.out = r.method, !.ran = r.ran]
    /\ UNCHANGED <<regFrame, builder, dispatch>>

\* a script calls obj:k(...): the read, then a call of the method it returned
InvokeMethod(k) ==
    LET r == IndexResult(dispatch, k) IN
    /\ dispatch.done
    /\ r.res = "method"
    /\ last' = [NoObs EXCEPT !.op = "invoke", !.key = k, !.res = "Ok",
                             !.out = r.method, !.ran = r.ran \o <<r.method>>]
    /\ UNCHANGED <<regFrame, builder, dispatch>>

\* a script applies the operator of a slot other than Index to obj
CallOperator(k) ==
    /\ dispatch.done
    /\ k # "__index"
    /\ last' = [NoObs EXCEPT !.op = "operator", !.key = k,
                   !.res = IF dispatch.meta[k] # Unbound THEN "Ok" ELSE "error",
                   !.ran = IF dispatch.meta[k] # Unbound THEN <<dispatch.meta[k]>>
                           ELSE <<>>]
    /\ UNCHANGED <<regFrame, builder, dispatch>>

\* One type's registration pass and the reads that follow it.
NextReg ==
    \/ \E op \in NameOps, k \in MethodNames : AddRegistration(op, k)
    \/ \E op \in MetaOps, k \in MetaKeys : AddRegistration(op, k)
    \/ Materialize
    \/ \E k \in ReadKeys : IndexRead(k)
    \/ \E k \in MethodNames : InvokeMethod(k)
    \/ \E k \in MetaKeys : CallOperator(k)

SpecReg == Init /\ [][NextReg]_vars

\* --------------------------------------------------- the operator catalog
\* enum MetaMethod: the variants every build has, those of lua53 only, and those
\* of lua53 and lua52.
CommonSlots == {"Add", "Sub", "Mul", "Div", "Mod", "Pow", "Unm", "Concat", "Len",
                "Eq", "Lt", "Le", "Index", "NewIndex", "Call", "ToString"}
Lua53Slots == {"IDiv", "BAnd", "BOr", "BXor", "BNot", "Shl", "Shr"}
PairsSlots == {"Pairs", "IPairs"}
AvailableSlots(d) ==
    CommonSlots \cup (IF d = "lua53" THEN Lua53Slots ELSE {})
                \cup (IF d \in {"lua53", "lua52"} THEN PairsSlots ELSE {})

\* MetaMethod::name, arm by arm
NameArms(s) ==
    CASE s = "Add" -> "__add"
      [] s = "Sub" -> "__sub"
      [] s = "Mul" -> "__mul"
      [] s = "Div" -> "__div"
      [] s = "Mod" -> "__mod"
      [] s = "Pow" -> "__pow"
      [] s = "Unm" -> "__unm"
      [] s = "IDiv" -> "__idiv"
      [] s = "BAnd" -> "__band"
      [] s = "BOr" -> "__bor"
      [] s = "BXor" -> "__bxor"
      [] s = "BNot" -> "__bnot"
      [] s = "Shl" -> "__shl"
      [] s = "Shr" -> "__shr"
      [] s = "Concat" -> "__concat"
      [] s = "Len" -> "__len"
      [] s = "Eq" -> "__eq"
      [] s = "Lt" -> "__lt"
      [] s = "Le" -> "__le"
      [] s = "Index" -> "__index"
      [] s = "NewIndex" -> "__newindex"
      [] s = "Call" -> "__call"
      [] s = "ToString" -> "__tostring"
      [] s = "Pairs" -> "__pairs"
      [] s = "IPairs" -> "__ipairs"
      [] OTHER -> ""

\* (variant: the arm of Le copied from Lt and left unchanged)
MetaMethodNameCopiedArm(s) == IF s = "Le" THEN NameArms("Lt") ELSE NameArms(s)
MetaMethodName(s) == NameArms(s)

\* One application of MetaMethod::name; the two latest are kept.
ApplyName(s) ==
    /\ s \in AvailableSlots(dialect)
    /\ metaSeen' = <<[slot |-> s, name |-> MetaMethodName(s)]>>
                       \o (IF metaSeen = <<>> THEN <<>> ELSE <<metaSeen[1]>>)
    /\ last' = [NoObs EXCEPT !.op = "name", !.key = s, !.ret = MetaMethodName(s)]
    /\ UNCHANGED <<dialect, regVars, objVars, cellFlag, userValue, handles, viewVars,
                   histVars, builder, dispatch, stack>>

\* The operator catalog alone, in any build.
NextMeta == \E s \in CommonSlots \cup Lua53Slots \cup PairsSlots : ApplyName(s)

SpecMeta == InitAnyBuild /\ [][NextMeta]_vars

\* ------------------------------------------------------- method calls
\* The add_methods of the documented MyUserData: get, add and the + operator.
ExamplePass ==
    <<[op |-> "add_method", key |-> "get"],
      [op |-> "add_method_mut", key |-> "add"],
      [op |-> "add_meta_method", key |-> MetaMethodName("Add")]>>
ExampleDispatch == Materialized(ExamplePass)
CallKeys == {"get", "add", "__add"}
\* the argument a script passes: none to get, 7 to add, 10 to +
ArgsOf(key) == IF key = "get" THEN {0} ELSE IF key = "add" THEN {7} ELSE {10}
MaxAdds == 2        \* successful add calls per instance
ValueCap == 123 + 7 * MaxAdds

\* the closure a call of key reaches, and its registration
ClosureOf(key) ==
    IF key \in MethodNames THEN ExampleDispatch.methods[key] ELSE ExampleDispatch.meta[key]
RecvOf(key) == ReceiverOf(ExamplePass[ClosureOf(key)].op)

\* the closure bodies: Ok(this.0); this.0 += value; Ok(this.0 + value)
GetBody(stored) == stored
\* (variant: the sum is computed and not stored)
AddBodyNotStored(stored, value) == stored
AddBody(stored, value) == stored + value
MetaAddBody(stored, value) == stored + value

\* what the wrapper's borrow of the receiver returns
ReceiverBorrow(h, key) ==
    IF RecvOf(key) = "ref" THEN BorrowResult(h, "T") ELSE BorrowMutResult(h, "T")

\* the flag once the wrapper holds its guard, and once it has dropped it again
FlagHeld(h, key) == IF RecvOf(key) = "ref" THEN cellFlag[CellOf(h)] + 1 ELSE -1
FlagDropped(recv, flag) == IF recv = "ref" THEN FlagAfterRefDrop(flag) ELSE flag + 1

CallObs(op, h, key, x, res, ran) ==
    [Obs(op, h, 0, "T", res, FALSE, <<>>, "", Nil) EXCEPT !.key = key, !.arg = x, !.ran = ran]

callFrame == <<dialect, objTy, objMt, userValue, handles, histVars, builder, dispatch,
               metaSeen>>

\* A script calls a method or operator of the metatable with handle h as receiver.
\* The wrapper borrows the receiver, converts the arguments (argsOk: whether that
\* succeeds), and runs the closure; the closure stays on the stack until Return.
CallMethod(h, key, x, argsOk) ==
    LET o == handles[h] IN
    /\ o # NoObj
    /\ InspectLookup(h, "T")
    /\ IF ReceiverBorrow(h, key) # "Ok"
       THEN /\ last' = CallObs("call_failed", h, key, x, ReceiverBorrow(h, key), <<>>)
            /\ UNCHANGED <<cellFlag, cellValue, viewVars, stack>>
       ELSE IF ~argsOk
       THEN /\ cellFlag' = [cellFlag EXCEPT ![CellOf(h)] =
                               FlagDropped(RecvOf(key), FlagHeld(h, key))]
            /\ last' = CallObs("call_failed", h, key, x, "FromLuaConversionError", <<>>)
            /\ UNCHANGED <<cellValue, viewVars, stack>>
       ELSE /\ TotalViews < MaxViews
            /\ key = "add" => AddBody(cellValue[o], x) <= ValueCap
            /\ cellFlag' = [cellFlag EXCEPT ![CellOf(h)] = FlagHeld(h, key)]
            /\ refs' = IF RecvOf(key) = "ref" THEN [refs EXCEPT ![h] = @ + 1] ELSE refs
            /\ refMuts' = IF RecvOf(key) = "mut" THEN [refMuts EXCEPT ![h] = @ + 1]
                          ELSE refMuts
            /\ cellValue' = IF key = "add"
                            THEN [cellValue EXCEPT ![o] = AddBody(@, x)]
                            ELSE cellValue
            /\ stack' = Append(stack, [h |-> h, key |-> key, arg |-> x,
                                       flag |-> cellFlag[o], shared |-> NumShared(o),
                                       exclusive |-> NumExclusive(o),
                                       value |-> cellValue[o]])
            /\ last' = CallObs("enter", h, key, x, "Ok", <<ClosureOf(key)>>)
    /\ UNCHANGED callFrame

\* The innermost closure returns r; the wrapper's guard is dropped on the way out.
Return(r) ==
    LET f == stack[Len(stack)]
        o == handles[f.h]
        recv == RecvOf(f.key) IN
    /\ stack # <<>>
    /\ stack' = SubSeq(stack, 1, Len(stack) - 1)
    /\ refs' = IF recv = "ref" THEN [refs EXCEPT ![f.h] = @ - 1] ELSE refs
    /\ refMuts' = IF recv = "mut" THEN [refMuts EXCEPT ![f.h] = @ - 1] ELSE refMuts
    /\ cellFlag' = [cellFlag EXCEPT ![CellOf(f.h)] = FlagDropped(recv, @)]
    /\ last' = [CallObs("return", f.h, f.key, f.arg, r, <<ClosureOf(f.key)>>) EXCEPT
                   !.out = IF r # "Ok" \/ f.key = "add" THEN 0
                           ELSE IF f.key = "get" THEN GetBody(cellValue[o])
                           ELSE MetaAddBody(cellValue[o], f.arg),
                   !.preFlag = f.flag, !.preShared = f.shared,
                   !.preExclusive = f.exclusive, !.preValue = f.value]
    /\ UNCHANGED <<callFrame, regVars, cellValue>>

\* globals.set("myobject", MyUserData(123)): the one instance of the example
CreateMyObject ==
    /\ \A o \in ObjIds : objTy[o] = "free"
    /\ \E v \in StoredValues : CreateUserData("T", v)

\* The instance of the example, the handles a script passes back for it, and
\* nested calls of its methods.
NextCall ==
    \/ CreateMyObject
    \/ \E h \in HandleIds : CloneHandle(h)
    \/ \E h \in HandleIds, key \in CallKeys, argsOk \in BOOLEAN :
           \E x \in ArgsOf(key) : CallMethod(h, key, x, argsOk)
    \/ \E r \in {"Ok", "RuntimeError"} : Return(r)

SpecCall == Init /\ [][NextCall]_vars

\* ================================================================ claims
LastObj == handles[last.h]
BorrowOps == {"borrow", "borrow_mut"}
Conflicts == {"UserDataBorrowError", "UserDataBorrowMutError"}
LastTyped == last.op \in {"is", "borrow", "borrow_mut"} /\ objTy[LastObj] = last.ty
LastFrame ==
    /\ cellFlag[LastObj] = last.preFlag
    /\ NumShared(LastObj) = last.preShared
    /\ NumExclusive(LastObj) = last.preExclusive

\* C1: every cell has either some number of live shared views or exactly one live
\* exclusive view, never both and never two exclusive ones, and its borrow flag
\* counts exactly the shared views not yet released (-1 while exclusive).
C1_SharedXorExclusive ==
    \A o \in ObjIds :
        /\ NumExclusive(o) <= 1
        /\ ~(NumShared(o) > 0 /\ NumExclusive(o) > 0)
        /\ IF NumExclusive(o) = 1 THEN cellFlag[o] = -1 ELSE cellFlag[o] = NumShared(o)

C1_Witness ==
    /\ last.op = "release" /\ last.preShared = 2
    /\ NumShared(LastObj) = 1 /\ cellFlag[LastObj] = 1

\* C2: on a handle of type T, borrow_mut while any view of the instance is live
\* fails with UserDataBorrowMutError, and borrow while an exclusive view is live
\* fails with UserDataBorrowError; the flag and the live views are as before.
C2_ConflictFailsUnchanged ==
    /\ (last.op = "borrow_mut" /\ LastTyped /\ last.preShared + last.preExclusive > 0)
           => (last.res = "UserDataBorrowMutError" /\ LastFrame)
    /\ (last.op = "borrow" /\ LastTyped /\ last.preExclusive > 0)
           => (last.res = "UserDataBorrowError" /\ LastFrame)

C2_Witness ==
    /\ last.op = "borrow_mut" /\ LastTyped /\ last.preShared = 2
    /\ last.res = "UserDataBorrowMutError" /\ cellFlag[LastObj] = 2

\* C3: on a handle made from a U value, for T # U, is::<T> is false and borrow::<T>
\* and borrow_mut::<T> fail with UserDataTypeMismatch; inspect hands the cell to its
\* closure only when the handle's metatable is T's registered metatable.
C3_MismatchRejected ==
    last.op \in {"is", "borrow", "borrow_mut"} =>
        /\ (objTy[LastObj] \in Types /\ objTy[LastObj] # last.ty) =>
               /\ last.op = "is" => last.res = "false"
               /\ last.op \in BorrowOps => last.res = "UserDataTypeMismatch"
               /\ ~last.called
               /\ LastFrame
        /\ last.called =>
               /\ objMt[LastObj] # NoMetatable
               /\ objMt[LastObj] = registered[last.ty]
               /\ objTy[LastObj] = last.ty

C3_Witness ==
    /\ last.op = "borrow_mut" /\ objTy[LastObj] = "U" /\ last.ty = "T"
    /\ last.res = "UserDataTypeMismatch" /\ last.preFlag = 0

\* C4: on a handle of type T, is::<T> is true; a cell with no live view is Free,
\* and borrow::<T> and borrow_mut::<T> on it succeed, whatever was acquired and
\* released before.
C4_ReleasedCellIsFree ==
    /\ \A o \in ObjIds : (NumShared(o) = 0 /\ NumExclusive(o) = 0) => cellFlag[o] = 0
    /\ (last.op = "is" /\ LastTyped) => last.res = "true"
    /\ (last.op \in BorrowOps /\ LastTyped /\ last.preShared = 0 /\ last.preExclusive = 0)
           => last.res = "Ok"

C4_Witness ==
    /\ last.op = "borrow_mut" /\ LastTyped /\ last.res = "Ok"
    /\ LastObj \in released

\* A view is held through a handle other than the one last.h names, on a userdata
\* of the requested type, and none through last.h itself.
OtherHandleHoldsView(sameObj) ==
    /\ last.op \in BorrowOps /\ LastTyped
    /\ \E a \in HandleIds :
           /\ a # last.h /\ handles[a] # NoObj
           /\ (handles[a] = LastObj) = sameObj
           /\ objTy[handles[a]] = last.ty
           /\ refs[a] + refMuts[a] > 0

\* C5 as stated: a view held through one handle never makes borrow or borrow_mut on
\* any other handle of the same type fail with a borrow conflict.
C5_AnyDistinctHandles ==
    (/\ last.op \in BorrowOps /\ LastTyped
     /\ \E a \in HandleIds : /\ a # last.h /\ handles[a] # NoObj
                             /\ objTy[handles[a]] = last.ty
                             /\ refs[a] + refMuts[a] > 0
     /\ refs[last.h] = 0 /\ refMuts[last.h] = 0)
        => last.res \notin Conflicts

\* C5 amended: a view held through a handle of another instance of the same type
\* never makes borrow or borrow_mut fail: with no view live on the handle's own
\* instance the call succeeds.
C5_DistinctInstances ==
    (OtherHandleHoldsView(FALSE) /\ last.preShared = 0 /\ last.preExclusive = 0)
        => last.res = "Ok"

C5_Witness ==
    /\ OtherHandleHoldsView(FALSE) /\ last.op = "borrow_mut" /\ last.res = "Ok"
    /\ \E a \in HandleIds : handles[a] \notin {NoObj, LastObj} /\ refMuts[a] = 1

\* C6: equals is true for reference-identical handles without any operator call,
\* false for handles of different native types, and for handles of one type with
\* no "__eq" in the metatable true exactly when they are reference-identical.
C6_EqualsWithoutOperator ==
    last.op = "equals" =>
        LET oa == handles[last.h]
            ob == handles[last.h2] IN
        /\ RefEq(last.h, last.h2) => (last.res = "true" /\ last.eqCalls = <<>>)
        /\ (objTy[oa] \in Types /\ objTy[ob] \in Types /\ objTy[oa] # objTy[ob])
               => last.res = "false"
        /\ (objTy[oa] \in Types /\ objTy[oa] = objTy[ob] /\ objMt[oa] \notin mtHasEq)
               => (last.res = "true" <=> RefEq(last.h, last.h2))

C6_Witness ==
    /\ last.op = "equals" /\ last.h # last.h2 /\ RefEq(last.h, last.h2)
    /\ objMt[handles[last.h]] \in mtHasEq /\ last.res = "true" /\ last.ret = "false"

\* C7: for handles that are not reference-identical and share a metatable holding
\* "__eq", equals calls the operator once with (self, other) and returns what it
\* returns; the operator is not called for reference-identical handles or for
\* handles whose metatables differ.
C7_EqualsDelegates ==
    last.op = "equals" =>
        LET oa == handles[last.h]
            ob == handles[last.h2] IN
        /\ (/\ ~RefEq(last.h, last.h2)
            /\ objMt[oa] # NoMetatable /\ objMt[oa] = objMt[ob]
            /\ objMt[oa] \in mtHasEq)
               => (last.eqCalls = << <<oa, ob>> >> /\ last.res = last.ret)
        /\ (RefEq(last.h, last.h2) \/ objMt[oa] # objMt[ob]) => last.eqCalls = <<>>

C7_Witness ==
    /\ last.op = "equals" /\ ~RefEq(last.h, last.h2)
    /\ last.eqCalls = << <<handles[last.h], handles[last.h2]>> >>
    /\ last.res = "RuntimeError"

\* C8: get_user_value returns the value of the latest set_user_value on the
\* userdata, nil included, in every build; neither operation touches the native
\* instance, its borrow flag or its live views.
C8_UserValueRoundTrip ==
    /\ (last.op = "get_user_value" /\ lastSet[LastObj] # Unset)
           => (last.res = "Ok" /\ last.val = lastSet[LastObj])
    /\ last.op \in {"set_user_value", "get_user_value"}
           => (LastFrame /\ cellValue[LastObj] = last.preValue)

C8_Witness ==
    /\ last.op = "get_user_value" /\ dialect = "lua52"
    /\ lastSet[LastObj] = Nil /\ last.val = Nil /\ last.res = "Ok"
    /\ cellFlag[LastObj] = -1

\* C9: is::<T> never raises: it returns true exactly when the handle has a
\* metatable and it is T's registered one, false otherwise, in every borrow state.
C9_IsNeverRaises ==
    last.op = "is" =>
        /\ last.res \in {"true", "false"}
        /\ last.res = "true" <=>
               (objMt[LastObj] # NoMetatable /\ objMt[LastObj] = registered[last.ty])
        /\ LastFrame

C9_Witness ==
    /\ last.op = "is" /\ objMt[LastObj] = NoMetatable /\ last.res = "false"
    /\ \E o \in ObjIds : cellFlag[o] = -1

\* C10: per type, add_methods runs at most once, and only in a step that works
\* with that type; once a tag is cached every later lookup returns it (the
\* instances of a type all carry it), and two types never share a tag.
C10_TagsNow ==
    /\ \A ty \in Types :
           /\ addMethodsRuns[ty] <= 1
           /\ registered[ty] # NoMetatable <=> addMethodsRuns[ty] = 1
    /\ \A t1 \in Types, t2 \in Types :
           (t1 # t2 /\ registered[t1] # NoMetatable) => registered[t1] # registered[t2]
    /\ \A o \in ObjIds : objTy[o] \in Types => objMt[o] = registered[objTy[o]]

C10_TagsStep ==
    \A ty \in Types :
        /\ registered[ty] # NoMetatable => registered'[ty] = registered[ty]
        /\ registered'[ty] # registered[ty] =>
               (last'.ty = ty /\ last'.op \in {"create", "is", "borrow", "borrow_mut"})

C10_RegisteredOnce == [](C10_TagsNow) /\ [][C10_TagsStep]_vars

C10_Witness ==
    /\ registered["T"] # NoMetatable /\ registered["U"] # NoMetatable
    /\ \A o \in ObjIds : objTy[o] = "U"
    /\ last.op = "is" /\ last.ty = "T" /\ last.res = "false"

\* C16: borrow::<T> and borrow_mut::<T> on a handle whose type is not T (another
\* exposed type, or no metatable) give UserDataTypeMismatch in every borrow state
\* of the cell, also while an exclusive view of it is live, and leave the flag and
\* the live views as they were.
C16_MismatchBeforeConflict ==
    (last.op \in BorrowOps /\ objTy[LastObj] # last.ty)
        => (last.res = "UserDataTypeMismatch" /\ ~last.called /\ LastFrame)

C16_Witness ==
    /\ last.op = "borrow" /\ objTy[LastObj] = "U" /\ last.ty = "T"
    /\ last.preExclusive = 1 /\ last.preFlag = -1
    /\ last.res = "UserDataTypeMismatch" /\ cellFlag[LastObj] = -1

\* C17: in every build, MetaMethod::name gives each available slot a name, and
\* two different available slots never get the same name.
C17_NameInjective ==
    \A i \in DOMAIN metaSeen, j \in DOMAIN metaSeen :
        /\ metaSeen[i].slot \in AvailableSlots(dialect)
        /\ metaSeen[i].name # ""
        /\ metaSeen[i].name = metaSeen[j].name => metaSeen[i].slot = metaSeen[j].slot

C17_Witness ==
    /\ dialect = "lua52" /\ Len(metaSeen) = 2
    /\ metaSeen[1].slot = "IPairs" /\ metaSeen[1].name = "__ipairs"
    /\ metaSeen[2].slot = "Pairs" /\ metaSeen[2].name = "__pairs"

\* The registrations of builder made with one of ops for key, by position.
RegsFor(ops, key) == {i \in DOMAIN builder : builder[i].op \in ops /\ builder[i].key = key}
\* The closure of the last of them, Unbound when there is none.
LastRegFor(ops, key) ==
    IF RegsFor(ops, key) = {} THEN Unbound
    ELSE CHOOSE i \in RegsFor(ops, key) : \A j \in RegsFor(ops, key) : j <= i

\* C11: after a registration pass the metatable binds every method name and every
\* operator slot to the closure of the last registration made for it, and a call
\* of the method or operator runs that closure and no earlier one.
C11_LastRegistrationWins ==
    dispatch.done =>
        /\ \A k \in MethodNames : dispatch.methods[k] = LastRegFor(NameOps, k)
        /\ \A k \in MetaKeys : dispatch.meta[k] = LastRegFor(MetaOps, k)
        /\ last.op = "invoke" => last.ran = <<LastRegFor(NameOps, last.key)>>
        /\ (last.op = "operator" /\ last.res = "Ok")
               => last.ran = <<LastRegFor(MetaOps, last.key)>>

C11_Witness ==
    /\ last.op = "invoke" /\ last.key = "get" /\ last.ran = <<2>>
    /\ Len(builder) = 2 /\ builder[1].key = "get" /\ builder[2].key = "get"
    /\ builder[1].op = "add_method" /\ builder[2].op = "add_function_mut"

\* C12: with regular methods and an "__index" operator both registered, a read of
\* key k returns the method bound to k when there is one, and the "__index"
\* operator runs only for a key that no regular method is registered under.
C12_MethodsBeforeIndexOverride ==
    last.op = "index" =>
        LET isMethod == last.key \in MethodNames /\ RegsFor(NameOps, last.key) # {} IN
        /\ isMethod => /\ last.res = "method"
                       /\ last.out = LastRegFor(NameOps, last.key)
                       /\ last.ran = <<>>
        /\ last.ran # <<>> => /\ ~isMethod
                              /\ last.ran = <<LastRegFor(MetaOps, "__index")>>
        /\ (~isMethod /\ RegsFor(MetaOps, "__index") # {}) => last.res = "index_op"

C12_Witness ==
    /\ last.op = "index" /\ last.key = "get" /\ last.res = "method" /\ last.out = 1
    /\ last.ran = <<>>
    /\ builder = <<[op |-> "add_method", key |-> "get"],
                   [op |-> "add_meta_method", key |-> "__index"]>>

CallAttempts == {"call_failed", "enter"}
\* a call in progress holds a guard of the given receiver kind on userdata o
FrameHolds(o, recv) ==
    \E i \in DOMAIN stack : handles[stack[i].h] = o /\ RecvOf(stack[i].key) = recv

\* C13: on MyUserData, get returns the stored value, add(x) leaves stored + x for
\* every later call, + returns stored + arg and leaves the stored value, and after
\* an outermost call has returned the cell is unused.
C13_CounterScenario ==
    (last.op = "return" /\ last.res = "Ok") =>
        /\ last.key = "get" =>
               (last.out = cellValue[LastObj] /\ cellValue[LastObj] = last.preValue)
        /\ last.key = "add" => cellValue[LastObj] = last.preValue + last.arg
        /\ last.key = "__add" =>
               /\ last.out = cellValue[LastObj] + last.arg
               /\ cellValue[LastObj] = last.preValue
        /\ stack = <<>> => cellFlag[LastObj] = 0

C13_Witness ==
    /\ last.op = "return" /\ last.res = "Ok" /\ last.key = "__add" /\ last.arg = 10
    /\ cellValue[LastObj] = 130 /\ last.out = 140
    /\ stack = <<>> /\ cellFlag[LastObj] = 0

\* C14: a method called on an instance while an outer call holds its exclusive
\* view fails with a borrow conflict, and so does a mutating method called while
\* an outer call holds a shared view; the closure does not run, the stored value
\* and the borrow state are unchanged, and the outer call still holds its view.
C14_ReentrantCallFails ==
    /\ (last.op \in CallAttempts /\ last.preExclusive > 0) =>
           /\ last.op = "call_failed"
           /\ last.res = IF RecvOf(last.key) = "ref" THEN "UserDataBorrowError"
                         ELSE "UserDataBorrowMutError"
           /\ last.ran = <<>>
           /\ cellValue[LastObj] = last.preValue
           /\ LastFrame
           /\ FrameHolds(LastObj, "mut")
    /\ (last.op \in CallAttempts /\ RecvOf(last.key) = "mut" /\ last.preShared > 0) =>
           /\ last.op = "call_failed"
           /\ last.res = "UserDataBorrowMutError"
           /\ last.ran = <<>>
           /\ cellValue[LastObj] = last.preValue
           /\ LastFrame
           /\ FrameHolds(LastObj, "ref")

C14_Witness ==
    /\ last.op = "call_failed" /\ last.key = "get" /\ last.res = "UserDataBorrowError"
    /\ Len(stack) = 1 /\ stack[1].key = "add" /\ handles[stack[1].h] = LastObj
    /\ cellValue[LastObj] = 130 /\ cellFlag[LastObj] = -1

\* C15: when a call returns, with a result or with an error, or fails before its
\* closure runs, the instance's flag and live views are what they were just before
\* the call; with no call in progress every cell is unused.
C15_GuardReleasedOnEveryExit ==
    /\ last.op \in {"return", "call_failed"} => LastFrame
    /\ stack = <<>> => \A o \in ObjIds : cellFlag[o] = 0

C15_Witness ==
    /\ last.op = "return" /\ last.res = "RuntimeError" /\ last.key = "__add"
    /\ stack = <<>> /\ last.preFlag = 0 /\ cellFlag[LastObj] = 0
====
